---- MODULE Spec2Model ----
(***************************************************************************)
(* kaboom: an editor for on-disk Atom feeds.                               *)
(*                                                                         *)
(* The module models                                                       *)
(*   - the link codec of src/src/stringable_link.rs: link_to_string, and   *)
(*     string_to_link as the loop it is, one iteration per step;           *)
(*   - the entry pruner of src/src/prune_command.rs:                       *)
(*     truncate_returning_rejects as called from PruneCommand::run;        *)
(*   - PruneCommand::run with the files it writes, write_to_path of        *)
(*     src/src/kaboom_feed.rs as its three steps;                          *)
(*   - the links of MetaCommand::run of src/src/meta_command.rs;           *)
(*   - AddCommand::run of src/src/add_command.rs.                          *)
(*                                                                         *)
(* A Rust String is a sequence of one-character strings; an Option<T> is   *)
(* the empty sequence (None) or a one-element sequence (Some(v)).  String  *)
(* indices are 0-based as in the source; Slice and split_at convert.       *)
(***************************************************************************)
EXTENDS Integers, Sequences, FiniteSets, TLC

VARIABLES
    pc,           \* position of the codec computation
    src_link,     \* the AtomLink handed to From<&AtomLink>
    string_form,  \* StringableLink.string_form: the string handed to From<&str>
    rem_input,    \* string_to_link: the working string
    link,         \* string_to_link: the link under construction
    consumed,     \* string_to_link: instructions matched so far, in scan order
    restrung,     \* link_to_string of the parsed link_form
    ppc,          \* position of the prune computation
    entries,      \* feed.entries
    rejected,     \* the Vec truncate_returning_rejects returns
    orig_entries, \* feed.entries as read from the feed file
    count,        \* PruneCommand.count
    strategy,     \* PruneCommand.strategy
    since_date,   \* PruneCommand.since_date
    file,         \* Kaboom.file: the path of the feed file
    no_op,        \* Kaboom.no_op
    no_reject,    \* PruneCommand.no_reject
    reject_file,  \* PruneCommand.reject_file
    disk,         \* the files on disk
    wpc,          \* position inside write_to_path
    mpc,          \* position of the meta computation
    links,        \* feed.links
    rel_link,     \* MetaCommand.rel_link, the link_form of each
    remove_links, \* MetaCommand.remove_links
    ridx,         \* MetaCommand::run: the place in rel_link of the for loop
    apc,          \* position of the add computation
    author_names, \* AddCommand.author_names
    author_emails,\* AddCommand.author_emails
    published_at, \* AddCommand.published_at
    updated_at    \* AddCommand.updated_at

codec_vars == <<pc, src_link, string_form, rem_input, link, consumed, restrung>>
prune_vars == <<ppc, entries, rejected, orig_entries, count, strategy, since_date>>
run_vars == <<file, no_op, no_reject, reject_file, disk, wpc>>
meta_vars == <<mpc, links, rel_link, remove_links, ridx>>
add_vars == <<apc, author_names, author_emails, published_at, updated_at>>
vars == <<pc, src_link, string_form, rem_input, link, consumed, restrung,
          ppc, entries, rejected, orig_entries, count, strategy, since_date,
          file, no_op, no_reject, reject_file, disk, wpc,
          mpc, links, rel_link, remove_links, ridx,
          apc, author_names, author_emails, published_at, updated_at>>

(***************************************************************************)
(* Bounds of the model.                                                    *)
(***************************************************************************)
MaxPieces == 3

MaxHrefPieces == 2

MaxEntries == 3

MaxStamp == 1

(***************************************************************************)
(* Strings and options.                                                    *)
(***************************************************************************)
None == <<>>

Some(v) == <<v>>

is_some(o) == Len(o) = 1

unwrap(o) == o[1]

Opt(S) == {None} \cup {Some(v) : v \in S}

\* str::ends_with(char)
ends_with(s, c) == Len(s) > 0 /\ s[Len(s)] = c

\* str::rfind(char): the 0-based index of the last occurrence, as an Option
rfind(s, c) ==
    LET hits == {i \in 1..Len(s) : s[i] = c}
    IN  IF hits = {} THEN None
        ELSE Some((CHOOSE i \in hits : \A j \in hits : j <= i) - 1)

\* s[a..b] is in range (otherwise the slice expression panics)
slice_ok(s, a, b) == a <= b /\ b <= Len(s)

\* s[a..b], 0-based, end exclusive
Slice(s, a, b) == SubSeq(s, a + 1, b)

\* str::split_at(mid) is in range (otherwise it panics)
split_ok(s, mid) == mid >= 0 /\ mid <= Len(s)

\* str::split_at(mid)
split_at(s, mid) == <<SubSeq(s, 1, mid), SubSeq(s, mid + 1, Len(s))>>

\* String::truncate(new_len): no effect when new_len >= len
truncate(s, new_len) == IF new_len >= Len(s) THEN s ELSE SubSeq(s, 1, new_len)

(***************************************************************************)
(* The instruction keys of the match arms, "=" included as the source has  *)
(* them, and the literal pieces of the format strings.                     *)
(***************************************************************************)
KeyRel == <<"r", "e", "l", "=">>

KeyType == <<"t", "y", "p", "e", "=">>

KeyTitle == <<"t", "i", "t", "l", "e", "=">>

KeyLang == <<"l", "a", "n", "g", "=">>

Related == <<"r", "e", "l", "a", "t", "e", "d">>

Alternate == <<"a", "l", "t", "e", "r", "n", "a", "t", "e">>

\* format!("[<key><v>]")
fmt_tag(key, v) == <<"[">> \o key \o v \o <<"]">>

\* AtomLink::default() of atom_syndication: rel "alternate", the rest empty
AtomLink_default ==
    [href |-> <<>>, rel |-> Alternate, mime_type |-> None,
     hreflang |-> None, title |-> None, length |-> None]

(***************************************************************************)
(* link_to_string: format!("{}{}{}{}{}", href, rel, type, lang, title),   *)
(* after two variants of it.                                               *)
(***************************************************************************)
\* hreflang written under the key of mime_type
link_to_string_pasted(l) ==
    l.href
      \o (IF l.rel = <<>> THEN <<>> ELSE fmt_tag(KeyRel, l.rel))
      \o (IF is_some(l.mime_type) THEN fmt_tag(KeyType, unwrap(l.mime_type)) ELSE <<>>)
      \o (IF is_some(l.hreflang) THEN fmt_tag(KeyType, unwrap(l.hreflang)) ELSE <<>>)
      \o (IF is_some(l.title) THEN fmt_tag(KeyTitle, unwrap(l.title)) ELSE <<>>)

\* hreflang written before mime_type
link_to_string_swapped(l) ==
    l.href
      \o (IF l.rel = <<>> THEN <<>> ELSE fmt_tag(KeyRel, l.rel))
      \o (IF is_some(l.hreflang) THEN fmt_tag(KeyLang, unwrap(l.hreflang)) ELSE <<>>)
      \o (IF is_some(l.mime_type) THEN fmt_tag(KeyType, unwrap(l.mime_type)) ELSE <<>>)
      \o (IF is_some(l.title) THEN fmt_tag(KeyTitle, unwrap(l.title)) ELSE <<>>)

link_to_string(l) ==
    l.href
      \o (IF l.rel = <<>> THEN <<>> ELSE fmt_tag(KeyRel, l.rel))
      \o (IF is_some(l.mime_type) THEN fmt_tag(KeyType, unwrap(l.mime_type)) ELSE <<>>)
      \o (IF is_some(l.hreflang) THEN fmt_tag(KeyLang, unwrap(l.hreflang)) ELSE <<>>)
      \o (IF is_some(l.title) THEN fmt_tag(KeyTitle, unwrap(l.title)) ELSE <<>>)

(***************************************************************************)
(* string_to_link: the pieces of one loop iteration.                       *)
(***************************************************************************)
\* lidx: rem_input.rfind('[')
lidx_of(rem) == rfind(rem, "[")

\* the candidate of rem_input.rfind('=')
eidx_of(rem) == rfind(rem, "=")

\* a split one character too far to the right
split_index_off_by_one(lidx, eidx) == eidx - lidx + 1

\* the argument of split_at: eidx - lidx
split_index(lidx, eidx) == eidx - lidx

\* rem_input[lidx + 1..rem_len - 1].split_at(eidx - lidx), or a panic
bracket_split(rem, lidx, eidx) ==
    LET rem_len == Len(rem)
        a == lidx + 1
        b == rem_len - 1
        mid == split_index(lidx, eidx)
    IN  IF ~(rem_len >= 1 /\ slice_ok(rem, a, b))
        THEN [ok |-> FALSE, key |-> <<>>, val |-> <<>>]
        ELSE LET inner == Slice(rem, a, b)
             IN  IF ~split_ok(inner, mid)
                 THEN [ok |-> FALSE, key |-> <<>>, val |-> <<>>]
                 ELSE [ok |-> TRUE,
                       key |-> split_at(inner, mid)[1],
                       val |-> split_at(inner, mid)[2]]

\* the instruction left in the working string
after_instruction_kept(rem, lidx) == rem

\* the working string after a matched instruction: rem_input.truncate(lidx)
after_instruction(rem, lidx) == truncate(rem, lidx)

\* a setter that keeps a value set before
set_field_keep_first(l, field, val) ==
    IF field = "rel"
    THEN (IF l.rel = Related THEN [l EXCEPT !.rel = val] ELSE l)
    ELSE (IF is_some(l[field]) THEN l ELSE [l EXCEPT ![field] = Some(val)])

\* the link after a matched arm whose setter is `field`
set_field(l, field, val) ==
    IF field = "rel" THEN [l EXCEPT !.rel = val]
    ELSE [l EXCEPT ![field] = Some(val)]

\* an href cut at the last '['
set_href_stripped(l, rem) ==
    [l EXCEPT !.href = IF lidx_of(rem) = None THEN rem
                       ELSE truncate(rem, unwrap(lidx_of(rem)))]

\* the link of a break: link.set_href(rem_input)
set_href(l, rem) == [l EXCEPT !.href = rem]

\* the default link with its rel left as it is
initial_link_alternate == AtomLink_default

\* the link the loop starts from: AtomLink::default(), then set_rel("related")
initial_link == [AtomLink_default EXCEPT !.rel = Related]

\* the guard of the instruction arms: a '[' and an '=' not before it
has_bracket_eq(rem) ==
    /\ ends_with(rem, "]")
    /\ is_some(lidx_of(rem))
    /\ is_some(eidx_of(rem))
    /\ ~(unwrap(eidx_of(rem)) < unwrap(lidx_of(rem)))

cur_split == bracket_split(rem_input, unwrap(lidx_of(rem_input)), unwrap(eidx_of(rem_input)))

Keys == {KeyRel, KeyType, KeyTitle, KeyLang}

(***************************************************************************)
(* Input domains.                                                          *)
(***************************************************************************)
Pieces ==
    { <<"h">>, <<"[">>, <<"]">>, <<"=">>, KeyRel,
      fmt_tag(KeyRel, <<"s">>), fmt_tag(KeyRel, <<"t">>),
      fmt_tag(KeyType, <<"m">>), fmt_tag(KeyLang, <<"e">>),
      fmt_tag(KeyTitle, <<"t">>), fmt_tag(<<"f", "=">>, <<"x">>) }

HrefPieces ==
    { <<"h">>, <<"[">>, <<"]">>,
      fmt_tag(KeyRel, <<"x">>), fmt_tag(KeyType, <<"y">>) }

\* the pieces of ps, one after the other
RECURSIVE concat(_)
concat(ps) == IF ps = <<>> THEN <<>> ELSE ps[1] \o concat(Tail(ps))

\* the strings made of at most n pieces of P
StringsOf(P, n) == {concat(ps) : ps \in UNION {[1..k -> P] : k \in 0..n}}

RelVals == { <<>>, <<"s">>, <<"=">>, <<"[">>, <<"]">> }

MimeVals == Opt({ <<"m">>, <<"=">> })

LangVals == Opt({ <<"e">>, <<"[">> })

TitleVals == Opt({ <<>>, <<"]">> })

LengthVals == Opt({ 7 })

Links ==
    [href : StringsOf(HrefPieces, MaxHrefPieces), rel : RelVals,
     mime_type : MimeVals, hreflang : LangVals, title : TitleVals,
     length : LengthVals]

(***************************************************************************)
(* The prune part is idle in the codec specifications.                     *)
(***************************************************************************)
PruneIdle ==
    /\ ppc = "idle"
    /\ entries = <<>>
    /\ rejected = <<>>
    /\ orig_entries = <<>>
    /\ count = 0
    /\ strategy = "RecentlyPublished"
    /\ since_date = 0
    /\ file = <<>>
    /\ no_op = FALSE
    /\ no_reject = FALSE
    /\ reject_file = <<>>
    /\ disk = {}
    /\ wpc = "none"
    /\ mpc = "idle"
    /\ links = <<>>
    /\ rel_link = <<>>
    /\ remove_links = FALSE
    /\ ridx = 1
    /\ apc = "idle"
    /\ author_names = <<>>
    /\ author_emails = <<>>
    /\ published_at = <<>>
    /\ updated_at = 0

\* a StringableLink is built from an AtomLink
InitLink ==
    /\ pc = "from_link"
    /\ src_link \in Links
    /\ string_form = <<>>
    /\ rem_input = <<>>
    /\ link = AtomLink_default
    /\ consumed = <<>>
    /\ restrung = <<>>
    /\ PruneIdle

\* a StringableLink is built from a string
InitStr ==
    /\ pc = "from_str"
    /\ src_link = AtomLink_default
    /\ string_form \in StringsOf(Pieces, MaxPieces)
    /\ rem_input = <<>>
    /\ link = AtomLink_default
    /\ consumed = <<>>
    /\ restrung = <<>>
    /\ PruneIdle

(***************************************************************************)
(* Codec actions.                                                          *)
(***************************************************************************)
\* From<&AtomLink>: string_form = link_to_string(it)
FromAtomLink ==
    /\ pc = "from_link"
    /\ string_form' = link_to_string(src_link)
    /\ pc' = "from_str"
    /\ UNCHANGED <<src_link, rem_input, link, consumed, restrung>>
    /\ UNCHANGED <<prune_vars, run_vars, meta_vars, add_vars>>

\* From<&str> entering string_to_link: the default link with rel "related"
FromStr ==
    /\ pc = "from_str"
    /\ link' = initial_link
    /\ rem_input' = string_form
    /\ consumed' = <<>>
    /\ pc' = "loop"
    /\ UNCHANGED <<src_link, string_form, restrung>>
    /\ UNCHANGED <<prune_vars, run_vars, meta_vars, add_vars>>

Break ==
    /\ link' = set_href(link, rem_input)
    /\ pc' = "parsed"
    /\ UNCHANGED <<src_link, string_form, rem_input, consumed, restrung>>
    /\ UNCHANGED <<prune_vars, run_vars, meta_vars, add_vars>>

\* the working string does not end with ']'
NoRBracket ==
    /\ pc = "loop"
    /\ ~ends_with(rem_input, "]")
    /\ Break

\* a trailing ']' that was never opened
NoLBracket ==
    /\ pc = "loop"
    /\ ends_with(rem_input, "]")
    /\ lidx_of(rem_input) = None
    /\ Break

\* the last '=' comes before the last '['
EqBeforeLBracket ==
    /\ pc = "loop"
    /\ ends_with(rem_input, "]")
    /\ is_some(lidx_of(rem_input))
    /\ is_some(eidx_of(rem_input))
    /\ unwrap(eidx_of(rem_input)) < unwrap(lidx_of(rem_input))
    /\ Break

\* no '=' at all
NoEquals ==
    /\ pc = "loop"
    /\ ends_with(rem_input, "]")
    /\ is_some(lidx_of(rem_input))
    /\ eidx_of(rem_input) = None
    /\ Break

\* a matched arm: set the field, then rem_input.truncate(lidx)
Instruction(key, field) ==
    /\ pc = "loop"
    /\ has_bracket_eq(rem_input)
    /\ cur_split.ok
    /\ cur_split.key = key
    /\ link' = set_field(link, field, cur_split.val)
    /\ consumed' = Append(consumed, [key |-> key, val |-> cur_split.val,
                                     lidx |-> unwrap(lidx_of(rem_input))])
    /\ rem_input' = after_instruction(rem_input, unwrap(lidx_of(rem_input)))
    /\ pc' = "loop"
    /\ UNCHANGED <<src_link, string_form, restrung>>
    /\ UNCHANGED <<prune_vars, run_vars, meta_vars, add_vars>>

SetRel == Instruction(KeyRel, "rel")

SetMimeType == Instruction(KeyType, "mime_type")

SetTitle == Instruction(KeyTitle, "title")

SetHreflang == Instruction(KeyLang, "hreflang")

\* the catch-all arm; an index out of range ends the program in a panic
Unparseable ==
    /\ pc = "loop"
    /\ has_bracket_eq(rem_input)
    /\ IF cur_split.ok
       THEN /\ cur_split.key \notin Keys
            /\ Break
       ELSE /\ pc' = "panic"
            /\ UNCHANGED <<src_link, string_form, rem_input, link, consumed, restrung>>
            /\ UNCHANGED <<prune_vars, run_vars, meta_vars, add_vars>>

\* From<&AtomLink> of the parsed link: its string form
Restring ==
    /\ pc = "parsed"
    /\ restrung' = link_to_string(link)
    /\ pc' = "done"
    /\ UNCHANGED <<src_link, string_form, rem_input, link, consumed>>
    /\ UNCHANGED <<prune_vars, run_vars, meta_vars, add_vars>>

DecodeNext ==
    \/ FromStr
    \/ NoRBracket
    \/ NoLBracket
    \/ EqBeforeLBracket
    \/ NoEquals
    \/ SetRel
    \/ SetMimeType
    \/ SetTitle
    \/ SetHreflang
    \/ Unparseable
    \/ Restring

LinkNext ==
    \/ FromAtomLink
    \/ DecodeNext

\* a link is encoded, its encoding decoded, and the result encoded again
SpecLink == InitLink /\ [][LinkNext]_vars

\* a string is decoded and the result encoded; the program takes every step
SpecStr == InitStr /\ [][DecodeNext]_vars /\ WF_vars(DecodeNext)

(***************************************************************************)
(* Claims about the link codec.                                            *)
(***************************************************************************)
has_char(s, c) == \E i \in 1..Len(s) : s[i] = c

\* the four values of a link, an absent one counting as empty
values_of(l) ==
    { l.rel,
      IF is_some(l.mime_type) THEN unwrap(l.mime_type) ELSE <<>>,
      IF is_some(l.hreflang) THEN unwrap(l.hreflang) ELSE <<>>,
      IF is_some(l.title) THEN unwrap(l.title) ELSE <<>> }

\* the link field an instruction key names, as a string
field_of(l, key) ==
    IF key = KeyRel THEN l.rel
    ELSE IF key = KeyType THEN unwrap(l.mime_type)
    ELSE IF key = KeyTitle THEN unwrap(l.title)
    ELSE unwrap(l.hreflang)

\* C1, as claimed: for every link with a non-empty rel, encoding, decoding
\* and encoding again gives the first encoding.
C1_ReencodeAnyLink ==
    (pc = "done" /\ src_link.rel # <<>>) => restrung = string_form

\* the links whose encoding the scan takes apart again: the href does not
\* end in ']' and no value holds '[' or '='
C1_Scannable(l) ==
    /\ l.rel # <<>>
    /\ ~ends_with(l.href, "]")
    /\ \A v \in values_of(l) : ~has_char(v, "[") /\ ~has_char(v, "=")

\* C1, amended: for every link with a non-empty rel, an href that does not
\* end in ']' and values holding neither '[' nor '=', encoding, decoding and
\* encoding again gives the first encoding.
C1_ReencodeScannable ==
    (pc = "done" /\ C1_Scannable(src_link)) => restrung = string_form

\* C1 witness: such a link, with a ']' in a value and a '[' in its href,
\* went through the round trip with its instructions consumed
C1_Witness ==
    /\ pc = "done"
    /\ C1_Scannable(src_link)
    /\ src_link.rel = <<"]">>
    /\ is_some(src_link.title)
    /\ has_char(src_link.href, "[")
    /\ Len(consumed) = 2
    /\ restrung = string_form

\* C2: string_to_link is total: no slice or split index is out of range,
\* every iteration that is not the last shortens the working string, and
\* the loop ends with a link.
C2_Total ==
    /\ [](pc # "panic")
    /\ [][(pc = "loop" /\ pc' = "loop") => Len(rem_input') < Len(rem_input)]_vars
    /\ <>(pc = "parsed")

\* C2 witness: the loop ran three shortening iterations and then ended
C2_Witness ==
    /\ pc = "parsed"
    /\ Len(consumed) = 3
    /\ link.href = <<>>

\* the instructions consumed with a given key
C3_With(key) == {i \in 1..Len(consumed) : consumed[i].key = key}

\* C3, as claimed: with two or more instructions of one key, the field has
\* the value of the rightmost one in the input.
C3_RightmostWins ==
    pc = "parsed" =>
        \A key \in Keys :
            Cardinality(C3_With(key)) >= 2 =>
                \E i \in C3_With(key) :
                    /\ \A j \in C3_With(key) : consumed[j].lidx <= consumed[i].lidx
                    /\ field_of(link, key) = consumed[i].val

\* C3, amended: with two or more instructions of one key, the field has the
\* value of the leftmost one in the input, the one the scan applies last.
C3_LeftmostWins ==
    pc = "parsed" =>
        \A key \in Keys :
            Cardinality(C3_With(key)) >= 2 =>
                \E i \in C3_With(key) :
                    /\ \A j \in C3_With(key) : consumed[i].lidx <= consumed[j].lidx
                    /\ field_of(link, key) = consumed[i].val

\* C3 witness: two rel instructions with different values were consumed
C3_Witness ==
    /\ pc = "parsed"
    /\ Len(consumed) = 2
    /\ consumed[1].key = KeyRel
    /\ consumed[2].key = KeyRel
    /\ consumed[1].val # consumed[2].val
    /\ link.rel = consumed[2].val

\* the key names of the four instructions, without the '='
C4_Names ==
    { <<"r", "e", "l">>, <<"t", "y", "p", "e">>,
      <<"t", "i", "t", "l", "e">>, <<"l", "a", "n", "g">> }

\* an irregularity of the working string: it ends in ']' and has no '[',
\* or no '=', or its last '=' before its last '[', or a key that is none of
\* the four
C4_Irregular(rem) ==
    /\ ends_with(rem, "]")
    /\ \/ ~has_char(rem, "[")
       \/ ~has_char(rem, "=")
       \/ unwrap(rfind(rem, "=")) < unwrap(rfind(rem, "["))
       \/ SubSeq(rem, unwrap(rfind(rem, "[")) + 2, unwrap(rfind(rem, "="))) \notin C4_Names

\* C4: at an irregularity the scan stops, href is the whole working string,
\* the fields set so far are kept, and when nothing was consumed before the
\* result is href = the input, rel = "related" and the rest None.
C4_IrregularStops ==
    [][(pc = "loop" /\ C4_Irregular(rem_input)) =>
          /\ pc' = "parsed"
          /\ link' = [link EXCEPT !.href = rem_input]
          /\ (consumed = <<>> =>
                link' = [href |-> string_form, rel |-> Related, mime_type |-> None,
                         hreflang |-> None, title |-> None, length |-> None])]_vars

\* C4 witness: the scan stopped at an irregular group after consuming a
\* type instruction, which it kept
C4_Witness ==
    /\ pc = "parsed"
    /\ Len(consumed) = 1
    /\ is_some(link.mime_type)
    /\ ends_with(link.href, "]")
    /\ has_char(link.href, "[")
    /\ link.href # string_form

\* C5: without a consumed rel instruction rel is "related"; an input that
\* does not end in ']' gives href = the input, rel = "related", rest None.
C5_Defaults ==
    pc = "parsed" =>
        /\ (C3_With(KeyRel) = {} => link.rel = Related)
        /\ (~ends_with(string_form, "]") =>
                link = [href |-> string_form, rel |-> Related, mime_type |-> None,
                        hreflang |-> None, title |-> None, length |-> None])

\* C5 witness: instructions were consumed, none of them rel
C5_Witness ==
    /\ pc = "parsed"
    /\ Len(consumed) = 2
    /\ C3_With(KeyRel) = {}
    /\ link.rel = Related
    /\ link.href = <<"h">>

\* C6: a link with non-empty rel, no length, an href not ending in ']' and
\* values without '[', ']' and '=' is decoded from its encoding unchanged.
C6_DecodeEncode ==
    ( /\ pc = "parsed"
      /\ src_link.rel # <<>>
      /\ src_link.length = None
      /\ ~ends_with(src_link.href, "]")
      /\ \A v \in values_of(src_link) :
            ~has_char(v, "[") /\ ~has_char(v, "]") /\ ~has_char(v, "=") )
    => link = src_link

\* C6 witness: such a link with an absent field came back, the field None
C6_Witness ==
    /\ pc = "parsed"
    /\ src_link.rel = <<"s">>
    /\ src_link.length = None
    /\ src_link.mime_type = Some(<<"m">>)
    /\ src_link.hreflang = None
    /\ src_link.title = Some(<<>>)
    /\ src_link.href = <<"[", "h">>
    /\ link = src_link

\* the characters a field contributes: its bracketed instruction, or nothing
C7_Part(name, present, v) ==
    IF present THEN <<"[">> \o name \o <<"=">> \o v \o <<"]">> ELSE <<>>

\* C7: the encoding is href, then [rel=..] if rel is non-empty, [type=..],
\* [lang=..] and [title=..] if present, in this order, values as they are.
C7_Format ==
    pc = "from_str" =>
        string_form =
            src_link.href
              \o C7_Part(<<"r", "e", "l">>, src_link.rel # <<>>, src_link.rel)
              \o C7_Part(<<"t", "y", "p", "e">>, src_link.mime_type # None,
                         IF src_link.mime_type # None THEN src_link.mime_type[1] ELSE <<>>)
              \o C7_Part(<<"l", "a", "n", "g">>, src_link.hreflang # None,
                         IF src_link.hreflang # None THEN src_link.hreflang[1] ELSE <<>>)
              \o C7_Part(<<"t", "i", "t", "l", "e">>, src_link.title # None,
                         IF src_link.title # None THEN src_link.title[1] ELSE <<>>)

\* C7 witness: an empty rel and an absent type contribute nothing, values
\* with '[' and ']' are copied as they are
C7_Witness ==
    /\ pc = "from_str"
    /\ src_link.rel = <<>>
    /\ src_link.mime_type = None
    /\ src_link.hreflang = Some(<<"[">>)
    /\ src_link.title = Some(<<"]">>)
    /\ src_link.href = <<"h">>
    /\ string_form = <<"h", "[", "l", "a", "n", "g", "=", "[", "]",
                       "[", "t", "i", "t", "l", "e", "=", "]", "]">>

(***************************************************************************)
(* The entry pruner.                                                       *)
(*                                                                         *)
(* An entry is [id, published, updated]: id is its place in the document   *)
(* as read, published an Option of a timestamp, updated a timestamp.       *)
(***************************************************************************)
Stamps == 0..MaxStamp

Entries == [published : Opt(Stamps), updated : Stamps]

\* a feed as read: every entry with its place in the document
with_ids(f) ==
    [i \in DOMAIN f |-> [id |-> i, published |-> f[i].published, updated |-> f[i].updated]]

Strategies == {"RecentlyPublished", "RecentlyUpdated", "SinceDate"}

\* Ord of Option<DateTime>: None is below every Some
opt_rank(o) == IF is_some(o) THEN unwrap(o) ELSE -1

\* the key closure of sort_by_key, as a rank
sort_key(e, strat) ==
    IF strat = "RecentlyUpdated" THEN e.updated ELSE opt_rank(e.published)

\* slice::sort_by_key: a stable sort, ascending
RECURSIVE sort_by_key(_, _)
sort_by_key(s, strat) ==
    IF Len(s) <= 1 THEN s
    ELSE LET n == Len(s)
             front == sort_by_key(SubSeq(s, 1, n - 1), strat)
             x == s[n]
             \* x goes after every element whose key is <= its own
             before == {i \in 1..(n - 1) : sort_key(front[i], strat) <= sort_key(x, strat)}
             k == Cardinality(before)
         IN  SubSeq(front, 1, k) \o <<x>> \o SubSeq(front, k + 1, n - 1)

\* the ascending order left as it is
reverse_missing(s) == s

\* slice::reverse
reverse(s) == [i \in 1..Len(s) |-> s[Len(s) + 1 - i]]

\* the closure of partition_point
since_pred(e, since) == is_some(e.published) /\ unwrap(e.published) >= since

\* slice::partition_point: a binary search for the first index where pred fails
RECURSIVE bsearch(_, _, _, _)
bsearch(s, since, left, right) ==
    IF left >= right THEN left
    ELSE LET mid == left + ((right - left) \div 2)
         IN  IF since_pred(s[mid + 1], since)
             THEN bsearch(s, since, mid + 1, right)
             ELSE bsearch(s, since, left, mid)

partition_point(s, since) == bsearch(s, since, 0, Len(s))

\* the partition point used without the cap
split_index_of_ppoint_only(strat, cnt, ppoint) ==
    IF strat = "SinceDate" THEN ppoint ELSE cnt

\* the argument of split_off
split_index_of(strat, cnt, ppoint) ==
    IF strat = "SinceDate"
    THEN (IF ppoint > cnt THEN cnt ELSE ppoint)
    ELSE cnt

\* a split that loses the entry at the split index
split_off_drops_one(s, at) ==
    IF at > Len(s) THEN [ok |-> FALSE, kept |-> s, rest |-> <<>>]
    ELSE [ok |-> TRUE, kept |-> SubSeq(s, 1, at), rest |-> SubSeq(s, at + 2, Len(s))]

\* Vec::split_off(at): panics when at > len
split_off(s, at) ==
    IF at > Len(s) THEN [ok |-> FALSE, kept |-> s, rest |-> <<>>]
    ELSE [ok |-> TRUE, kept |-> SubSeq(s, 1, at), rest |-> SubSeq(s, at + 1, Len(s))]

\* truncate_returning_rejects(&mut entries): kept is entries afterwards
truncate_returning_rejects(es, strat, cnt, since) ==
    LET sorted == reverse(sort_by_key(es, strat))
        ppoint == partition_point(sorted, since)
    IN  split_off(sorted, split_index_of(strat, cnt, ppoint))

(***************************************************************************)
(* Paths and files.                                                        *)
(*                                                                         *)
(* A path is the sequence of the pieces of its file name between dots:     *)
(* feed.xml is <<"feed", "xml">>.  The directory part is the same for      *)
(* every path of a run and is left out.  A file is [path, data]; its data  *)
(* is [complete, entries, links]: complete is FALSE for a file that was    *)
(* created or partly written and is not a whole Atom document.             *)
(***************************************************************************)
\* Path::extension: the piece after the last dot of the file name; a name
\* with no dot, or with its only dot in front, has none
extension(path) ==
    IF Len(path) >= 2 /\ ~(Len(path) = 2 /\ path[1] = "")
    THEN Some(path[Len(path)])
    ELSE None

\* Path::set_extension: the extension, if any, gives way to ext
set_extension(path, ext) ==
    (IF is_some(extension(path)) THEN SubSeq(path, 1, Len(path) - 1) ELSE path) \o ext

\* the target itself used as the temporary file
temp_path_in_place(path) == path

\* write_to_path: temp_path
temp_path(path) ==
    IF is_some(extension(path))
    THEN set_extension(path, <<unwrap(extension(path)), "kaboom">>)
    ELSE set_extension(path, <<"xml", "kaboom">>)

\* PruneCommand::run: the closure of unwrap_or_else, from the feed path
rej_path(feed_path) ==
    IF extension(feed_path) = Some("xml")
    THEN set_extension(feed_path, <<"rej", "xml">>)
    ELSE feed_path

\* self.reject_file.clone().unwrap_or_else(..)
reject_path(rf, feed_path) == IF is_some(rf) THEN unwrap(rf) ELSE rej_path(feed_path)

\* a whole document
document(es, ls) == [complete |-> TRUE, entries |-> es, links |-> ls]

\* what File::create leaves, and what a failed write_to leaves after it
partial(es, ls) == [complete |-> FALSE, entries |-> es, links |-> ls]

\* the data of the file at path, if there is one
disk_read(d, path) ==
    IF \E f \in d : f.path = path
    THEN Some((CHOOSE f \in d : f.path = path).data)
    ELSE None

disk_remove(d, path) == {f \in d : f.path # path}

disk_put(d, path, data) == disk_remove(d, path) \cup {[path |-> path, data |-> data]}

\* std::fs::rename: the file at from replaces whatever is at to
rename(d, from, to) ==
    IF from = to THEN d
    ELSE disk_put(disk_remove(d, from), to, unwrap(disk_read(d, from)))

\* a prune run that also prunes a feed of exactly count entries
not_pruning_below(len, cnt) == len < cnt

\* a prune run that prunes whatever the length
not_pruning_never(len, cnt) == FALSE

\* PruneCommand::run: feed.entries().len() <= self.count
not_pruning(len, cnt) == len <= cnt

\* the codec part is idle in the prune and meta specifications
CodecIdle ==
    /\ pc = "idle"
    /\ src_link = AtomLink_default
    /\ string_form = <<>>
    /\ rem_input = <<>>
    /\ link = AtomLink_default
    /\ consumed = <<>>
    /\ restrung = <<>>

\* the add part is idle in the prune and meta specifications
AddIdle ==
    /\ apc = "idle"
    /\ author_names = <<>>
    /\ author_emails = <<>>
    /\ published_at = None
    /\ updated_at = 0

\* the meta part is idle in the prune specifications
MetaIdle ==
    /\ mpc = "idle"
    /\ links = <<>>
    /\ rel_link = <<>>
    /\ remove_links = FALSE
    /\ ridx = 1

\* PruneCommand::run after Feed::read_from_path, the feed file feed.xml
\* holding the feed
InitPrune ==
    /\ ppc = "read"
    /\ \E n \in 0..MaxEntries : \E f \in [1..n -> Entries] : orig_entries = with_ids(f)
    /\ entries = orig_entries
    /\ rejected = <<>>
    /\ count \in 0..MaxEntries
    /\ strategy \in Strategies
    /\ since_date \in IF strategy = "SinceDate" THEN 0..(MaxStamp + 1) ELSE {0}
    /\ file = <<"feed", "xml">>
    /\ no_op = FALSE
    /\ no_reject = FALSE
    /\ reject_file = None
    /\ disk = {[path |-> file, data |-> document(orig_entries, <<>>)]}
    /\ wpc = "none"
    /\ MetaIdle
    /\ AddIdle
    /\ CodecIdle

\* feed.entries().len() <= self.count: nothing is pruned
NotPruning ==
    /\ ppc = "read"
    /\ not_pruning(Len(entries), count)
    /\ ppc' = "done"
    /\ UNCHANGED <<entries, rejected, orig_entries, count, strategy, since_date>>
    /\ UNCHANGED <<codec_vars, run_vars, meta_vars, add_vars>>

\* let rejected = self.truncate_returning_rejects(&mut feed.entries)
Truncate(strat) ==
    /\ ppc = "read"
    /\ ~not_pruning(Len(entries), count)
    /\ strategy = strat
    /\ LET r == truncate_returning_rejects(entries, strategy, count, since_date)
       IN  IF r.ok
           THEN /\ entries' = r.kept
                /\ rejected' = r.rest
                /\ ppc' = "truncated"
           ELSE /\ ppc' = "panic"
                /\ UNCHANGED <<entries, rejected>>
    /\ UNCHANGED <<orig_entries, count, strategy, since_date>>
    /\ UNCHANGED <<codec_vars, run_vars, meta_vars, add_vars>>

TruncateRecentlyPublished == Truncate("RecentlyPublished")

TruncateRecentlyUpdated == Truncate("RecentlyUpdated")

TruncateSinceDate == Truncate("SinceDate")

PruneNext ==
    \/ NotPruning
    \/ TruncateRecentlyPublished
    \/ TruncateRecentlyUpdated
    \/ TruncateSinceDate

SpecPrune == InitPrune /\ [][PruneNext]_vars

(***************************************************************************)
(* Claims about the entry pruner.                                          *)
(***************************************************************************)
\* the key a strategy orders by; a missing timestamp is below every present
\* one
C8_Key(e, strat) ==
    IF strat = "RecentlyUpdated" THEN e.updated
    ELSE IF e.published = None THEN -1 ELSE e.published[1]

\* s is in non-increasing order of the strategy's key
C8_Descending(s, strat) ==
    \A i \in 1..Len(s) : \A j \in 1..Len(s) :
        i < j => C8_Key(s[i], strat) >= C8_Key(s[j], strat)

\* C8: under RecentlyPublished and RecentlyUpdated, count entries are kept,
\* most recent first, the other len - count are rejected, and every kept
\* entry's key is >= every rejected entry's key.
C8_KeepsMostRecent ==
    (ppc = "truncated" /\ strategy \in {"RecentlyPublished", "RecentlyUpdated"}) =>
        /\ Len(entries) = count
        /\ Len(rejected) = Len(orig_entries) - count
        /\ C8_Descending(entries, strategy)
        /\ \A i \in 1..Len(entries) : \A j \in 1..Len(rejected) :
              C8_Key(entries[i], strategy) >= C8_Key(rejected[j], strategy)

\* C8 witness: two entries kept in an order that is not the document's, an
\* entry without a published timestamp among the rejected
C8_Witness ==
    /\ ppc = "truncated"
    /\ strategy = "RecentlyPublished"
    /\ count = 2
    /\ Len(entries) = 2
    /\ entries[1].id > entries[2].id
    /\ entries[1].published # entries[2].published
    /\ Len(rejected) = 1
    /\ rejected[1].published = None

C9_Min(a, b) == IF a <= b THEN a ELSE b

\* an entry passes the date filter: published is present and >= since_date
C9_Since(e) == e.published # None /\ e.published[1] >= since_date

\* the number of entries of the feed that pass the date filter
C9_ppoint == Cardinality({i \in 1..Len(orig_entries) : C9_Since(orig_entries[i])})

\* C9: under SinceDate the kept entries are the min(ppoint, count) most
\* recently published ones, each published at or after since_date, and every
\* entry without a published timestamp is rejected.
C9_SinceDate ==
    (ppc = "truncated" /\ strategy = "SinceDate") =>
        /\ Len(entries) = C9_Min(C9_ppoint, count)
        /\ \A i \in 1..Len(entries) : C9_Since(entries[i])
        /\ C8_Descending(entries, "SinceDate")
        /\ \A i \in 1..Len(entries) : \A j \in 1..Len(rejected) :
              C8_Key(entries[i], "SinceDate") >= C8_Key(rejected[j], "SinceDate")
        /\ \A i \in 1..Len(orig_entries) :
              orig_entries[i].published = None =>
                  \E j \in 1..Len(rejected) : rejected[j] = orig_entries[i]

\* C9 witness: the date filter admits two entries and the cap keeps one
C9_Witness ==
    /\ ppc = "truncated"
    /\ strategy = "SinceDate"
    /\ C9_ppoint = 2
    /\ count = 1
    /\ Len(entries) = 1
    /\ Len(rejected) = 2
    /\ C9_Since(rejected[1])
    /\ ~C9_Since(rejected[2])

\* C9 witness of the other branch: fewer than count pass the date filter
C9_WitnessFewer ==
    /\ ppc = "truncated"
    /\ strategy = "SinceDate"
    /\ C9_ppoint = 1
    /\ count = 2
    /\ Len(entries) = 1
    /\ Len(rejected) = 2

\* C10: kept followed by rejected holds every entry of the feed exactly once
\* and is in non-increasing order of the strategy's key.
C10_Permutation ==
    ppc = "truncated" =>
        LET all == entries \o rejected
        IN  /\ Len(all) = Len(orig_entries)
            /\ \A i \in 1..Len(orig_entries) :
                  Cardinality({j \in 1..Len(all) : all[j] = orig_entries[i]}) = 1
            /\ C8_Descending(all, strategy)

\* C10 witness: the rejected entries are in key order, not document order
C10_Witness ==
    /\ ppc = "truncated"
    /\ strategy = "RecentlyUpdated"
    /\ Len(rejected) = 2
    /\ rejected[1].id > rejected[2].id
    /\ rejected[1].updated > rejected[2].updated

(***************************************************************************)
(* PruneCommand::run with its files: after truncate_returning_rejects the  *)
(* rejected entries are written to the reject path unless no_reject is     *)
(* set, then the feed is written to the feed path.  write_to_path is three *)
(* steps (File::create of the temporary file, write_to, std::fs::rename),  *)
(* and each of them can fail, which ends the run with the error.           *)
(***************************************************************************)
\* feed paths: .xml, no extension, another extension, and a name that ends
\* as the temporary files do
FeedPaths ==
    {<<"feed", "xml">>, <<"feed">>, <<"feed", "atom">>, <<"feed", "xml", "kaboom">>}

\* reject_file: not given, or given as feed.xml
RejectFiles == {None, Some(<<"feed", "xml">>)}

\* a prune run after Feed::read_from_path; the feed file is the only file.
\* The entries differ in published, which is what decides the files.
InitRun ==
    /\ ppc = "read"
    /\ \E n \in 0..MaxEntries : \E f \in [1..n -> Opt(Stamps)] :
          orig_entries = with_ids([i \in 1..n |-> [published |-> f[i], updated |-> 0]])
    /\ entries = orig_entries
    /\ rejected = <<>>
    /\ count \in 0..MaxEntries
    /\ strategy \in Strategies
    /\ since_date \in IF strategy = "SinceDate" THEN 0..(MaxStamp + 1) ELSE {0}
    /\ file \in FeedPaths
    /\ no_op = FALSE
    /\ no_reject \in BOOLEAN
    /\ reject_file \in RejectFiles
    /\ disk = {[path |-> file, data |-> document(orig_entries, <<>>)]}
    /\ wpc = "none"
    /\ MetaIdle
    /\ AddIdle
    /\ CodecIdle

\* the path handed to the write_to_path under way
write_path == IF ppc = "write_reject" THEN reject_path(reject_file, file) ELSE file

\* the entries of the feed handed to the write_to_path under way
write_entries == IF ppc = "write_reject" THEN rejected ELSE entries

\* if self.no_reject: only a warning, then feed.write_to_path(&top_args.file)
NoReject ==
    /\ ppc = "truncated"
    /\ no_reject
    /\ ppc' = "write_feed"
    /\ wpc' = "create"
    /\ UNCHANGED <<entries, rejected, orig_entries, count, strategy, since_date>>
    /\ UNCHANGED <<file, no_op, no_reject, reject_file, disk>>
    /\ UNCHANGED <<codec_vars, meta_vars, add_vars>>

\* rej_feed = feed.clone(); rej_feed.set_entries(rejected);
\* rej_feed.write_to_path(reject path)
RejFeed ==
    /\ ppc = "truncated"
    /\ ~no_reject
    /\ ppc' = "write_reject"
    /\ wpc' = "create"
    /\ UNCHANGED <<entries, rejected, orig_entries, count, strategy, since_date>>
    /\ UNCHANGED <<file, no_op, no_reject, reject_file, disk>>
    /\ UNCHANGED <<codec_vars, meta_vars, add_vars>>

\* File::create(&temp_path)?: an empty file at temp_path, or the error
FileCreate ==
    /\ wpc = "create"
    /\ \E ok \in BOOLEAN :
          IF ok
          THEN /\ disk' = disk_put(disk, temp_path(write_path), partial(<<>>, <<>>))
               /\ wpc' = "write_to"
               /\ UNCHANGED ppc
          ELSE /\ ppc' = "failed"
               /\ wpc' = "none"
               /\ UNCHANGED disk
    /\ UNCHANGED <<entries, rejected, orig_entries, count, strategy, since_date>>
    /\ UNCHANGED <<file, no_op, no_reject, reject_file>>
    /\ UNCHANGED <<codec_vars, meta_vars, add_vars>>

\* self.write_to(&mut file)?: the whole document in the temporary file, or
\* the error and some part of it
WriteTo ==
    /\ wpc = "write_to"
    /\ \E ok \in BOOLEAN :
          IF ok
          THEN /\ disk' = disk_put(disk, temp_path(write_path),
                                   document(write_entries, links))
               /\ wpc' = "rename"
               /\ UNCHANGED ppc
          ELSE /\ \E k \in 0..Len(write_entries) :
                     disk' = disk_put(disk, temp_path(write_path),
                                      partial(SubSeq(write_entries, 1, k), links))
               /\ ppc' = "failed"
               /\ wpc' = "none"
    /\ UNCHANGED <<entries, rejected, orig_entries, count, strategy, since_date>>
    /\ UNCHANGED <<file, no_op, no_reject, reject_file>>
    /\ UNCHANGED <<codec_vars, meta_vars, add_vars>>

\* std::fs::rename(&temp_path, path)?: then Ok(()) to the caller, which goes
\* on to write the feed after the rejects, or is done
Rename ==
    /\ wpc = "rename"
    /\ \E ok \in BOOLEAN :
          IF ok
          THEN /\ disk' = rename(disk, temp_path(write_path), write_path)
               /\ IF ppc = "write_reject"
                  THEN ppc' = "write_feed" /\ wpc' = "create"
                  ELSE ppc' = "done" /\ wpc' = "none"
          ELSE /\ ppc' = "failed"
               /\ wpc' = "none"
               /\ UNCHANGED disk
    /\ UNCHANGED <<entries, rejected, orig_entries, count, strategy, since_date>>
    /\ UNCHANGED <<file, no_op, no_reject, reject_file>>
    /\ UNCHANGED <<codec_vars, meta_vars, add_vars>>

\* the next prune run on the same files, with a count that makes it prune:
\* Feed::read_from_path(&top_args.file)
Again ==
    /\ ppc = "done"
    /\ is_some(disk_read(disk, file))
    /\ LET data == unwrap(disk_read(disk, file))
       IN  /\ data.complete
           /\ entries' = data.entries
           /\ \E c \in 0..MaxEntries :
                 /\ ~not_pruning(Len(data.entries), c)
                 /\ count' = c
    /\ rejected' = <<>>
    /\ ppc' = "read"
    /\ UNCHANGED <<orig_entries, strategy, since_date>>
    /\ UNCHANGED <<codec_vars, run_vars, meta_vars, add_vars>>

RunNext ==
    \/ NotPruning
    \/ TruncateRecentlyPublished
    \/ TruncateRecentlyUpdated
    \/ TruncateSinceDate
    \/ NoReject
    \/ RejFeed
    \/ FileCreate
    \/ WriteTo
    \/ Rename
    \/ Again

SpecRun == InitRun /\ [][RunNext]_vars

\* a prune run under -n, on the default feed path and reject path
InitDryRun ==
    /\ ppc = "read"
    /\ \E n \in 0..MaxEntries : \E f \in [1..n -> Opt(Stamps)] :
          orig_entries = with_ids([i \in 1..n |-> [published |-> f[i], updated |-> 0]])
    /\ entries = orig_entries
    /\ rejected = <<>>
    /\ count \in 0..MaxEntries
    /\ strategy \in Strategies
    /\ since_date \in IF strategy = "SinceDate" THEN 0..(MaxStamp + 1) ELSE {0}
    /\ file = <<"feed", "xml">>
    /\ no_op = TRUE
    /\ no_reject \in BOOLEAN
    /\ reject_file = None
    /\ disk = {[path |-> file, data |-> document(orig_entries, <<>>)]}
    /\ wpc = "none"
    /\ MetaIdle
    /\ AddIdle
    /\ CodecIdle

SpecDryRun == InitDryRun /\ [][RunNext]_vars

(***************************************************************************)
(* Claims about the prune run and its files.                               *)
(***************************************************************************)
\* the whole documents on disk at path hold entry e
on_disk(e, path) ==
    /\ is_some(disk_read(disk, path))
    /\ unwrap(disk_read(disk, path)).complete
    /\ \E i \in 1..Len(unwrap(disk_read(disk, path)).entries) :
          unwrap(disk_read(disk, path)).entries[i] = e

\* the run under way is the first on the feed: what it read is the feed
first_run == Len(entries) + Len(rejected) = Len(orig_entries)

\* C11: when the feed has at most count entries the run is a no-op whatever
\* the strategy: its one step leaves the entries as they are, in their
\* order, leaves every file as it is, and ends the run.
C11_NoOp ==
    [][(ppc = "read" /\ Len(entries) <= count) =>
          (entries' = entries /\ disk' = disk /\ ppc' = "done")]_vars

\* C11 witness: a since-date run over two entries that are not in key order
\* has ended, the entries and the only file as they were
C11_Witness ==
    /\ ppc = "done"
    /\ strategy = "SinceDate"
    /\ since_date = 1
    /\ Len(orig_entries) = 2
    /\ count = 2
    /\ entries = orig_entries
    /\ entries[1].published = None
    /\ entries[2].published = Some(1)
    /\ disk = {[path |-> file, data |-> document(orig_entries, <<>>)]}

\* C12: after a since-date run has completed, no entry of the feed, in
\* memory or in the feed file, has a published timestamp that is missing or
\* earlier than since_date.
C12_OnlySince ==
    (ppc = "done" /\ strategy = "SinceDate") =>
        /\ \A i \in 1..Len(entries) : C9_Since(entries[i])
        /\ \A i \in 1..Len(orig_entries) :
              on_disk(orig_entries[i], file) => C9_Since(orig_entries[i])

\* C13: no step of write_to_path, failed or not, leaves at the target path
\* anything but what was there before the step or the whole new document.
C13_TargetWhole ==
    [][wpc # "none" =>
          \/ disk_read(disk', write_path) = disk_read(disk, write_path)
          \/ disk_read(disk', write_path) = Some(document(write_entries, links))]_vars

\* C13 witness: writing the feed failed in write_to after the rejects were
\* written: the temporary file holds a part, the feed file the previous
\* document, the reject file the whole new one
C13_Witness ==
    /\ ppc = "failed"
    /\ file = <<"feed", "xml">>
    /\ reject_file = None
    /\ Len(entries) = 2
    /\ Len(rejected) = 1
    /\ disk_read(disk, temp_path(file)) = Some(partial(SubSeq(entries, 1, 1), <<>>))
    /\ disk_read(disk, file) = Some(document(orig_entries, <<>>))
    /\ disk_read(disk, <<"feed", "rej", "xml">>) = Some(document(rejected, <<>>))

\* C14: under no_op the files stay as they were when the command started.
C14_NothingWritten ==
    no_op => disk = {[path |-> file, data |-> document(orig_entries, <<>>)]}

\* the feed path with a .xml extension removed and .rej.xml added
C15_Expected(path) ==
    (IF Len(path) >= 2 /\ path[Len(path)] = "xml"
     THEN SubSeq(path, 1, Len(path) - 1)
     ELSE path) \o <<"rej", "xml">>

\* C15: with no reject_file given the rejects are written to the feed path
\* with any .xml extension removed and .rej.xml added, which is never the
\* feed path.
C15_DefaultRejectPath ==
    (ppc = "write_reject" /\ reject_file = None) =>
        /\ write_path = C15_Expected(file)
        /\ write_path # file

\* C18: truncate_returning_rejects as run calls it never fails: the index
\* handed to split_off is at most the length.
C18_NeverFails ==
    /\ ppc # "panic"
    /\ (ppc = "read" /\ Len(entries) > count) =>
          LET sorted == reverse(sort_by_key(entries, strategy))
          IN  split_index_of(strategy, count, partition_point(sorted, since_date))
                  <= Len(entries)

\* C18 witness: a since-date run with count 0 whose date filter admits
\* every entry has rejected them all
C18_Witness ==
    /\ ppc = "truncated"
    /\ strategy = "SinceDate"
    /\ count = 0
    /\ C9_ppoint = Len(orig_entries)
    /\ Len(orig_entries) >= 2
    /\ entries = <<>>
    /\ Len(rejected) = Len(orig_entries)

\* C19: in a first run with rejects enabled and a reject path that is not
\* the feed path, in every state every entry of the feed as read is in the
\* feed file or in the reject file, and the feed file is other than it was
\* only once the reject file holds the rejected entries.
C19_RejectsFirst ==
    (first_run /\ ~no_reject /\ reject_path(reject_file, file) # file) =>
        /\ \A i \in 1..Len(orig_entries) :
              \/ on_disk(orig_entries[i], file)
              \/ on_disk(orig_entries[i], reject_path(reject_file, file))
        /\ disk_read(disk, file) # Some(document(orig_entries, <<>>)) =>
              disk_read(disk, reject_path(reject_file, file))
                  = Some(document(rejected, <<>>))

\* C20: after each run of a sequence of prune runs that write rejects to
\* the same reject file, which is not the feed file, every entry of the
\* initial feed is in the feed file or in the reject file.
C20_Archive ==
    (ppc = "done" /\ ~no_reject /\ reject_path(reject_file, file) # file) =>
        \A i \in 1..Len(orig_entries) :
            \/ on_disk(orig_entries[i], file)
            \/ on_disk(orig_entries[i], reject_path(reject_file, file))

(***************************************************************************)
(* MetaCommand::run: the links of the feed.  The title, id, subtitle, icon *)
(* and logo, the updated timestamp and the generator are metadata the run  *)
(* reads and sets apart from the links, and are left out.  The run is:     *)
(* read the feed, clear the links if remove_links, apply each rel_link in  *)
(* turn, then, unless no_op, create the temporary file, write the feed to  *)
(* it and rename it over the feed file.                                    *)
(***************************************************************************)
MaxRelLinks == 2

Self == <<"s", "e", "l", "f">>

MetaHrefs == {<<"a">>, <<"b">>}

\* the link_form of a rel_link: what string_to_link builds, length unset
RelLinks ==
    [href : MetaHrefs, rel : {Self, Related}, mime_type : {None},
     hreflang : {None}, title : Opt({<<"t">>}), length : {None}]

\* a lookup that finds nothing
position_none(ls, href) == 0

\* feed.links.iter_mut().find(|link| link.href() == rl.href()): the place of
\* the first link with the href, 0 for None
position(ls, href) ==
    IF \E i \in 1..Len(ls) : ls[i].href = href
    THEN CHOOSE i \in 1..Len(ls) :
             /\ ls[i].href = href
             /\ \A j \in 1..(i - 1) : ls[j].href # href
    ELSE 0

\* existing.set_rel, set_hreflang, set_mime_type, set_title, unless same
modify_in_place(existing, rl) ==
    IF existing = rl THEN existing
    ELSE [existing EXCEPT !.rel = rl.rel, !.hreflang = rl.hreflang,
                          !.mime_type = rl.mime_type, !.title = rl.title]

\* the temporary path of MetaCommand::run
meta_temp_path(path) ==
    IF is_some(extension(path))
    THEN set_extension(path, <<unwrap(extension(path)), "kaboom">>)
    ELSE set_extension(path, <<"", "xml", "kaboom">>)

\* the hrefs of ls are pairwise distinct
distinct_hrefs(ls) ==
    \A i \in 1..Len(ls) : \A j \in 1..Len(ls) : ls[i].href = ls[j].href => i = j

\* the prune part is idle in the meta specification
PruneIdleInMeta ==
    /\ ppc = "idle"
    /\ entries = <<>>
    /\ rejected = <<>>
    /\ orig_entries = <<>>
    /\ count = 0
    /\ strategy = "RecentlyPublished"
    /\ since_date = 0
    /\ no_reject = FALSE
    /\ reject_file = None

\* a meta run after Feed::read_from_path, on a feed whose links have
\* pairwise distinct hrefs
InitMeta ==
    /\ mpc = "read"
    /\ \E n \in 0..Cardinality(MetaHrefs) : \E ls \in [1..n -> RelLinks] :
          /\ distinct_hrefs(ls)
          /\ links = ls
    /\ \E n \in 0..MaxRelLinks : rel_link \in [1..n -> RelLinks]
    /\ remove_links \in BOOLEAN
    /\ ridx = 1
    /\ file \in {<<"feed", "xml">>, <<"feed">>}
    /\ no_op \in BOOLEAN
    /\ disk = {[path |-> file, data |-> document(<<>>, links)]}
    /\ wpc = "none"
    /\ PruneIdleInMeta
    /\ AddIdle
    /\ CodecIdle

\* if self.remove_links: feed.set_links(Vec::with_capacity(..))
SetLinks ==
    /\ mpc = "read"
    /\ remove_links
    /\ links' = <<>>
    /\ mpc' = "loop"
    /\ UNCHANGED <<rel_link, remove_links, ridx>>
    /\ UNCHANGED <<codec_vars, add_vars, prune_vars, run_vars>>

\* remove_links is not set: the links stay
KeepLinks ==
    /\ mpc = "read"
    /\ ~remove_links
    /\ mpc' = "loop"
    /\ UNCHANGED <<links, rel_link, remove_links, ridx>>
    /\ UNCHANGED <<codec_vars, add_vars, prune_vars, run_vars>>

\* for rel_link in &self.rel_link: a link with the href exists
ModifyInPlace ==
    /\ mpc = "loop"
    /\ ridx <= Len(rel_link)
    /\ position(links, rel_link[ridx].href) # 0
    /\ LET i == position(links, rel_link[ridx].href)
       IN  links' = [links EXCEPT ![i] = modify_in_place(links[i], rel_link[ridx])]
    /\ ridx' = ridx + 1
    /\ UNCHANGED <<mpc, rel_link, remove_links>>
    /\ UNCHANGED <<codec_vars, add_vars, prune_vars, run_vars>>

\* for rel_link in &self.rel_link: no link has the href
Push ==
    /\ mpc = "loop"
    /\ ridx <= Len(rel_link)
    /\ position(links, rel_link[ridx].href) = 0
    /\ links' = Append(links, rel_link[ridx])
    /\ ridx' = ridx + 1
    /\ UNCHANGED <<mpc, rel_link, remove_links>>
    /\ UNCHANGED <<codec_vars, add_vars, prune_vars, run_vars>>

\* Ok(()): the process ends, and its arguments and its feed with it
exit ==
    /\ mpc' = "done"
    /\ links' = <<>>
    /\ rel_link' = <<>>
    /\ remove_links' = FALSE
    /\ ridx' = 1

\* if top_args.no_op: only the warning
MetaNoOp ==
    /\ mpc = "loop"
    /\ ridx > Len(rel_link)
    /\ no_op
    /\ exit
    /\ UNCHANGED <<codec_vars, add_vars, prune_vars, run_vars>>

\* else: File::create(&temp_path)?
MetaFileCreate ==
    /\ mpc = "loop"
    /\ ridx > Len(rel_link)
    /\ ~no_op
    /\ \E ok \in BOOLEAN :
          IF ok
          THEN /\ disk' = disk_put(disk, meta_temp_path(file), partial(<<>>, <<>>))
               /\ mpc' = "write"
               /\ wpc' = "write_to"
          ELSE /\ mpc' = "failed"
               /\ UNCHANGED <<disk, wpc>>
    /\ UNCHANGED <<links, rel_link, remove_links, ridx>>
    /\ UNCHANGED <<file, no_op, no_reject, reject_file>>
    /\ UNCHANGED <<codec_vars, add_vars, prune_vars>>

\* feed.write_to(&mut file)?
MetaWriteTo ==
    /\ mpc = "write"
    /\ wpc = "write_to"
    /\ \E ok \in BOOLEAN :
          IF ok
          THEN /\ disk' = disk_put(disk, meta_temp_path(file), document(entries, links))
               /\ wpc' = "rename"
               /\ UNCHANGED mpc
          ELSE /\ \E k \in 0..Len(links) :
                     disk' = disk_put(disk, meta_temp_path(file),
                                      partial(entries, SubSeq(links, 1, k)))
               /\ mpc' = "failed"
               /\ wpc' = "none"
    /\ UNCHANGED <<links, rel_link, remove_links, ridx>>
    /\ UNCHANGED <<file, no_op, no_reject, reject_file>>
    /\ UNCHANGED <<codec_vars, add_vars, prune_vars>>

\* std::fs::rename(&temp_path, &top_args.file)?
MetaRename ==
    /\ mpc = "write"
    /\ wpc = "rename"
    /\ \E ok \in BOOLEAN :
          IF ok
          THEN /\ disk' = rename(disk, meta_temp_path(file), file)
               /\ exit
          ELSE /\ mpc' = "failed"
               /\ UNCHANGED <<disk, links, rel_link, remove_links, ridx>>
    /\ wpc' = "none"
    /\ UNCHANGED <<file, no_op, no_reject, reject_file>>
    /\ UNCHANGED <<codec_vars, add_vars, prune_vars>>

\* the next meta run on the same feed file: Feed::read_from_path
MetaAgain ==
    /\ mpc = "done"
    /\ links' = unwrap(disk_read(disk, file)).links
    /\ \E n \in 0..MaxRelLinks : rel_link' \in [1..n -> RelLinks]
    /\ remove_links' \in BOOLEAN
    /\ ridx' = 1
    /\ mpc' = "read"
    /\ UNCHANGED <<codec_vars, add_vars, prune_vars, run_vars>>

MetaNext ==
    \/ SetLinks
    \/ KeepLinks
    \/ ModifyInPlace
    \/ Push
    \/ MetaNoOp
    \/ MetaFileCreate
    \/ MetaWriteTo
    \/ MetaRename
    \/ MetaAgain

SpecMeta == InitMeta /\ [][MetaNext]_vars

(***************************************************************************)
(* Claims about the links of meta.                                         *)
(***************************************************************************)
\* the links of the feed file
C16_FileLinks == unwrap(disk_read(disk, file)).links

\* the step of the loop for rel_link rl: a link with its href takes rl's rel,
\* hreflang, mime_type and title where it stands, the others stay; with no
\* such link rl goes to the end
C16_Applied(rl) ==
    IF \E i \in 1..Len(links) : links[i].href = rl.href
    THEN /\ Len(links') = Len(links)
         /\ \A i \in 1..Len(links) :
               IF links[i].href = rl.href
               THEN /\ links'[i].href = links[i].href
                    /\ links'[i].length = links[i].length
                    /\ links'[i].rel = rl.rel
                    /\ links'[i].hreflang = rl.hreflang
                    /\ links'[i].mime_type = rl.mime_type
                    /\ links'[i].title = rl.title
               ELSE links'[i] = links[i]
    ELSE links' = links \o <<rl>>

\* C16: each rel_link is applied by href: an existing link with the href is
\* overwritten in place, with the number and order of links as before,
\* otherwise the link is appended; and over any sequence of meta runs from
\* a feed whose hrefs are pairwise distinct, neither the feed nor the feed
\* file ever holds two links with one href.
C16_ByHref ==
    /\ [](distinct_hrefs(links) /\ distinct_hrefs(C16_FileLinks))
    /\ [][(mpc = "loop" /\ ridx <= Len(rel_link)) => C16_Applied(rel_link[ridx])]_vars

\* C16 witness: in a later run, on a feed file of two links, the first link
\* was overwritten in place by the first rel_link
C16_Witness ==
    /\ mpc = "loop"
    /\ ~remove_links
    /\ ridx = 2
    /\ Len(C16_FileLinks) = 2
    /\ Len(links) = 2
    /\ C16_FileLinks[1].rel = Related
    /\ C16_FileLinks[1].title = None
    /\ rel_link[1].href = C16_FileLinks[1].href
    /\ rel_link[1].rel = Self
    /\ rel_link[1].title = Some(<<"t">>)
    /\ links[1] = rel_link[1]
    /\ links[2] = C16_FileLinks[2]

\* the links of ls whose rel is self, in their order
C17_SelfLinks(ls) == SelectSeq(ls, LAMBDA l : l.rel = Self)

\* C17: when the loop of a run with remove_links is over, a run without
\* rel_link has left of the links of the feed file those with rel self and
\* no other, and a run with rel_link has left the supplied links and no
\* other: every link is a supplied one and every supplied href has its link.
C17_RemoveLinks ==
    (mpc = "loop" /\ ridx > Len(rel_link) /\ remove_links) =>
        IF rel_link = <<>>
        THEN links = C17_SelfLinks(C16_FileLinks)
        ELSE /\ \A i \in 1..Len(links) :
                   \E j \in 1..Len(rel_link) : links[i] = rel_link[j]
             /\ \A j \in 1..Len(rel_link) :
                   \E i \in 1..Len(links) : links[i].href = rel_link[j].href

\* under no_op a meta run leaves the files as they are
C14_MetaNothingWritten == [][no_op => disk' = disk]_vars

(***************************************************************************)
(* AddCommand::run: the check of the author arguments, which logs an error *)
(* and goes on, the feed read from the feed file, the entry built from the *)
(* arguments and inserted in front, and feed.write_to_path on the feed     *)
(* path, whose three steps are those of the prune run.  An entry here is   *)
(* [id, published, updated, contributors]; the entry added has id 0, the   *)
(* entries of the feed their place in the document.  The title, summary    *)
(* and content of the entry are left out.                                  *)
(***************************************************************************)
MaxAuthors == 2

Names == {"ann", "bob"}

Emails == {"a@x", "b@x"}

\* the check of run: emails are given and their number is not that of names
authors_mismatch(names, emails) == emails # <<>> /\ Len(names) # Len(emails)

\* the shorter of two lengths: where zip stops
zip_len(a, b) == IF Len(a) <= Len(b) THEN Len(a) ELSE Len(b)

\* eb.contributors(..): a Person per name without emails, else per zipped pair
contributors(names, emails) ==
    IF emails = <<>>
    THEN [i \in 1..Len(names) |-> [name |-> names[i], email |-> None]]
    ELSE [i \in 1..zip_len(names, emails) |->
             [name |-> names[i], email |-> Some(emails[i])]]

\* eb.build() from the arguments
build(names, emails, published, updated) ==
    [id |-> 0, published |-> published, updated |-> updated,
     contributors |-> contributors(names, emails)]

\* Vec::insert(index, element), index 0-based
insert(s, index, element) ==
    SubSeq(s, 1, index) \o <<element>> \o SubSeq(s, index + 1, Len(s))

\* an add run before it reads the feed file; the feed file is the only file
InitAdd ==
    /\ apc = "check"
    /\ \E n \in 0..MaxAuthors : author_names \in [1..n -> Names]
    /\ \E n \in 0..MaxAuthors : author_emails \in [1..n -> Emails]
    /\ published_at \in Opt(Stamps)
    /\ updated_at \in Stamps
    /\ \E n \in 0..MaxEntries :
          orig_entries = [i \in 1..n |-> [id |-> i, published |-> None, updated |-> 0,
                                          contributors |-> <<>>]]
    /\ entries = <<>>
    /\ file \in FeedPaths
    /\ no_op \in BOOLEAN
    /\ disk = {[path |-> file, data |-> document(orig_entries, <<>>)]}
    /\ wpc = "none"
    /\ ppc = "idle"
    /\ rejected = <<>>
    /\ count = 0
    /\ strategy = "RecentlyPublished"
    /\ since_date = 0
    /\ no_reject = FALSE
    /\ reject_file = None
    /\ MetaIdle
    /\ CodecIdle

\* if !emails.is_empty() && names.len() != emails.len(): error!(..), and the
\* run goes on; Feed::read_from_path(&top_args.file)
CheckAuthors ==
    /\ apc = "check"
    /\ apc' = IF authors_mismatch(author_names, author_emails)
              THEN "error_logged" ELSE "checked"
    /\ entries' = unwrap(disk_read(disk, file)).entries
    /\ UNCHANGED <<author_names, author_emails, published_at, updated_at>>
    /\ UNCHANGED <<ppc, rejected, orig_entries, count, strategy, since_date>>
    /\ UNCHANGED <<codec_vars, run_vars, meta_vars>>

\* feed.entries.insert(0, eb.build()); feed.write_to_path(&top_args.file)
InsertEntry ==
    /\ apc \in {"checked", "error_logged"}
    /\ ppc = "idle"
    /\ entries' = insert(entries, 0,
                         build(author_names, author_emails, published_at, updated_at))
    /\ ppc' = "write_feed"
    /\ wpc' = "create"
    /\ UNCHANGED add_vars
    /\ UNCHANGED <<rejected, orig_entries, count, strategy, since_date>>
    /\ UNCHANGED <<file, no_op, no_reject, reject_file, disk>>
    /\ UNCHANGED <<codec_vars, meta_vars>>

AddNext ==
    \/ CheckAuthors
    \/ InsertEntry
    \/ FileCreate
    \/ WriteTo
    \/ Rename

SpecAdd == InitAdd /\ [][AddNext]_vars

(***************************************************************************)
(* Claims about add.                                                       *)
(***************************************************************************)
\* the feed file is as it was when the run started, and is the only file
C21_FileUntouched == disk = {[path |-> file, data |-> document(orig_entries, <<>>)]}

\* the feed holds the entries read, in their order, behind one new entry
\* that has a contributor for each author name
C21_Inserted(es) ==
    /\ Len(es) = Len(orig_entries) + 1
    /\ \A i \in 1..Len(orig_entries) : es[i + 1] = orig_entries[i]
    /\ es[1].id = 0
    /\ Len(es[1].contributors) = Len(author_names)
    /\ \A i \in 1..Len(author_names) : es[1].contributors[i].name = author_names[i]

\* C21: when emails are given and differ in number from the names, the run
\* never ends without an error, inserts no entry and leaves the files as
\* they were; otherwise a run that has ended without an error has inserted
\* one entry in front, a contributor per author name, the entries read behind
\* it in their order, in the feed and in the feed file.
C21_ErrorOrInsert ==
    IF authors_mismatch(author_names, author_emails)
    THEN /\ ppc # "done"
         /\ apc # "check" => entries = orig_entries
         /\ C21_FileUntouched
    ELSE ppc = "done" =>
             /\ C21_Inserted(entries)
             /\ disk_read(disk, file) = Some(document(entries, <<>>))

\* the half of C21 for arguments that pass the check
C21_InsertsWhenChecked ==
    (apc = "checked" /\ ppc = "done") =>
        /\ C21_Inserted(entries)
        /\ disk_read(disk, file) = Some(document(entries, <<>>))

\* under no_op an add run leaves the files as they are
C14_AddNothingWritten == no_op => C21_FileUntouched

====
